---- MODULE Spec2Model ----
(***************************************************************************)
(* Model of the chat handlers of the proxy servers: the tool-calling server *)
(* (open_webui/custom_llm_server_with_tools.py, chat.generate_response)    *)
(* and the two plain proxies (custom_llm_server.py and its copy under      *)
(* open_webui/).  One client request is followed from the parsed body to   *)
(* the end of the response generator.  The inference backend and the tool  *)
(* library are the environment: every chunk, end of stream, exception and  *)
(* tool outcome is a nondeterministic choice.                              *)
(***************************************************************************)
EXTENDS Integers, Sequences, FiniteSets, TLC

VARIABLES
    server,                \* which program serves the request
    data,                  \* parsed request body (its messages list is mutated in place)
    is_streaming,          \* data.get("stream", True)
    messages,              \* local variable `messages`
    pc,                    \* position of the generator
    retry_count,
    tool_call_success,
    tool_calls,            \* "None" | "empty" | "calls"
    accumulated_response,  \* chunks accumulated in buffered mode
    result,                \* value returned by use_tools
    out,                   \* what the generator has yielded to the client
    calls,                 \* payloads of the upstream calls issued so far
    pos,                   \* chunks read from the open upstream response
    received,              \* history: chunks the backend produced, in order
    invocations,           \* history: pass of the directive at each entry of use_tools
    returned,              \* history: number of use_tools calls that returned
    response,              \* status of the upstream response being read, or "none"
    open_streams,          \* upstream responses that are open
    disconnected,          \* the client has gone away
    directs,               \* history: passes that ended with no exception and no tool call
    direct_answer,         \* history: such a pass ended without any tool-call field
    endpoint,              \* the route of the request: "chat", "tags", "generate", or "none"
    body,                  \* the request body as it was received
    reply,                 \* value returned by a handler that is not a generator
    USE_MOCK_DATA,         \* nba_tools: the process-wide mock flag
    tool_pc,               \* nba_tools: position of the capability call
    fn,                    \* nba_tools: the capability called
    args,                  \* nba_tools: its arguments
    ret,                   \* nba_tools: what it returned
    api_requests,          \* nba_tools: requests the call made to the data provider
    functions              \* tool server module: the handlers it registered at import

\* the variables of one chat request
chat_vars == << server, data, is_streaming, messages, pc, retry_count, tool_call_success,
                tool_calls, accumulated_response, result, out, calls, pos, received,
                invocations, returned, directs, direct_answer, response, open_streams,
                disconnected >>

\* the variables of the capability library
tool_vars == << USE_MOCK_DATA, tool_pc, fn, args, ret, api_requests, functions >>

\* what a chat request leaves alone
side_vars == << endpoint, body, reply, tool_vars >>

vars == << chat_vars, side_vars >>

----------------------------------------------------------------------------
(* Bounds of the exploration *)

MaxMsgs == 1      \* longest incoming messages list
MaxChunks == 2    \* chunks the backend produces over the tool-seeking passes of one request
MaxRelay == 2     \* chunks the backend produces in a pass that is relayed unparsed
MaxDirect == 1    \* passes of one request that end with no exception and no tool call

(* Program constants *)

max_retries == 10

FixedModel == "llama3.2:1b"

SystemPrompt == "You are an assistant with access to tools"

ProxySystemPrompt == "You are a helpful AI assistant."

BypassTasks == {"tags_generation", "title_generation", "autocomplete_generation"}

----------------------------------------------------------------------------
(* Inputs *)

Servers == {"tools", "proxy", "proxy_buffered"}

InRoles == {"user", "system"}

Tasks == BypassTasks \cup {"absent", "query_generation"}

Models == {"absent", "llama3.1:latest"}

InMsg(r) == [role |-> r, content |-> "in"]

RECURSIVE SeqsUpTo(_)
SeqsUpTo(n) ==
    IF n = 0 THEN {<< >>}
    ELSE LET S == SeqsUpTo(n - 1)
         IN  S \cup {Append(s, InMsg(r)) : s \in {t \in S : Len(t) = n - 1}, r \in InRoles}

MessageLists == SeqsUpTo(MaxMsgs)

\* what a chunk of a tool-seeking pass can decode to: a JSON object without
\* message.tool_calls, bytes that are not JSON, an object with a non-empty
\* tool_calls, an object with an empty tool_calls, bytes whose decoding raises
\* something other than JSONDecodeError, and one half of the encoding of an
\* object with a non-empty tool_calls that transport segmentation cut in two
ChunkKinds == {"plain", "frag", "tool", "emptytool", "bad", "toolpart"}

\* what the backend can answer a tool-seeking call with: a 2xx status, or an
\* error status with a body (the handler never looks at the status)
Statuses == {"ok", "error_status"}

\* a pass that is relayed is never decoded: two contents tell its chunks apart
RelayKinds == {"plain", "frag"}

----------------------------------------------------------------------------
(* Pure helpers *)

SysMsg == [role |-> "system", content |-> SystemPrompt]

ProxySysMsg == [role |-> "system", content |-> ProxySystemPrompt]

ToolMsg(r) == [role |-> "tool", content |-> r]

HasSystem(msgs) == \E i \in 1..Len(msgs) : msgs[i].role = "system"

\* the system message added at the end of the list
InjectSystemLast(msgs, sys) == IF HasSystem(msgs) THEN msgs ELSE Append(msgs, sys)

InjectSystem(msgs, sys) == IF HasSystem(msgs) THEN msgs ELSE <<sys>> \o msgs

DataGetMessages(d, default) == IF d.has_messages THEN d.messages ELSE default

DataGetModel(d) == IF d.model = "absent" THEN FixedModel ELSE d.model

FunctionCall(d) == d.task \notin BypassTasks

\* the loop test without the success flag
WhileTestIgnoresSuccess(rc, tcs) == rc < max_retries

WhileTest(rc, tcs) == rc < max_retries /\ ~tcs

LoopPc(rc, tcs) == IF WhileTest(rc, tcs) THEN "open" ELSE "after"

\* the test on message.tool_calls left out
ParseNoToolTest(kind) ==
    CASE kind \in {"plain", "tool", "emptytool"} -> "relay"
      [] kind \in {"frag", "toolpart"}          -> "decode_error"
      [] kind = "bad"                            -> "raise"

\* outcome of json.loads(chunk.decode('utf-8')) and of the test on message.tool_calls
Parse(kind) ==
    CASE kind = "plain"     -> "relay"
      [] kind = "frag"      -> "decode_error"
      [] kind = "tool"      -> "tool_calls"
      [] kind = "emptytool" -> "empty_tool_calls"
      [] kind = "bad"       -> "raise"
      [] kind = "toolpart"  -> "decode_error"

LastPass == IF received = << >> THEN 0 ELSE received[Len(received)].pass

\* a chunk is identified by the pass that produced it (numbered among the passes
\* that produced any chunk), its position in that pass, and what it decodes to
Chunk(phase, kind) ==
    [phase |-> phase,
     pass  |-> IF pos = 0 THEN LastPass + 1 ELSE LastPass,
     idx   |-> pos + 1,
     kind  |-> kind]

Item(bytes) == [bytes |-> bytes, err |-> "none"]

ErrorItem(e) == [bytes |-> << >>, err |-> e]

Emit(o, chunk) == IF is_streaming THEN Append(o, Item(<<chunk>>)) ELSE o

Accumulate(acc, chunk) == IF is_streaming THEN acc ELSE Append(acc, chunk)

EmitBody(o, acc) == IF is_streaming THEN o ELSE Append(o, Item(acc))

----------------------------------------------------------------------------
\* nba_tools.py as imported: the flag is off (line 128) and nothing has been called
ToolsIdle ==
    /\ USE_MOCK_DATA = FALSE
    /\ tool_pc = "idle"
    /\ fn = "none"
    /\ args = << >>
    /\ ret = [tag |-> "none", value |-> << >>, exc |-> "none"]
    /\ api_requests = << >>
    /\ functions = [status |-> "unloaded", names |-> {}]

Init ==
    /\ server \in Servers
    /\ data \in [has_messages : {TRUE}, messages : MessageLists,
                 task : Tasks, model : Models]
            \cup [has_messages : {FALSE}, messages : {<< >>},
                  task : Tasks, model : Models]
    /\ is_streaming \in BOOLEAN
    /\ messages = << >>
    /\ pc = "start"
    /\ retry_count = 0
    /\ tool_call_success = FALSE
    /\ tool_calls = "None"
    /\ accumulated_response = << >>
    /\ result = 0
    /\ out = << >>
    /\ calls = << >>
    /\ pos = 0
    /\ received = << >>
    /\ invocations = << >>
    /\ returned = 0
    /\ directs = 0
    /\ direct_answer = FALSE
    /\ response = "none"
    /\ open_streams = 0
    /\ disconnected = FALSE
    /\ endpoint = "chat"
    /\ body = data
    /\ reply = "none"
    /\ ToolsIdle

\* the response is not closed when its block is left
CloseStreamLeak(n) == n

\* leaving an `async with async_client.stream(...)` block closes its response
CloseStream(n) == n - 1

\* entering the block: the response headers have arrived with status st
OpenResponse(st) ==
    /\ response' = st
    /\ open_streams' = open_streams + 1
    /\ UNCHANGED disconnected

CloseResponse ==
    /\ response' = "none"
    /\ open_streams' = CloseStream(open_streams)
    /\ UNCHANGED disconnected

KeepResponse == UNCHANGED << response, open_streams, disconnected >>

\* lines 134-184: system message injection, task dispatch, loop initialisation
Begin ==
    /\ pc = "start"
    /\ endpoint = "chat"
    /\ server = "tools"
    /\ data' = IF data.has_messages
               THEN [data EXCEPT !.messages = InjectSystem(@, SysMsg)]
               ELSE data
    /\ IF FunctionCall(data)
       THEN /\ messages' = DataGetMessages(data', << >>)
            /\ pc' = LoopPc(0, FALSE)
       ELSE /\ messages' = DataGetMessages(data', <<SysMsg>>)
            /\ pc' = "bypass"
    /\ retry_count' = 0
    /\ tool_call_success' = FALSE
    /\ UNCHANGED << server, is_streaming, tool_calls, accumulated_response, result, out, calls,
                    pos, received, invocations, returned, directs, direct_answer >>
    /\ KeepResponse
    /\ UNCHANGED side_vars

\* the except clause with the budget test off by one
AttemptFailedLate(o) ==
    /\ retry_count' = retry_count + 1
    /\ IF retry_count + 1 <= max_retries
       THEN /\ out' = o
            /\ pc' = IF retry_count + 1 < max_retries /\ ~tool_call_success
                     THEN "open" ELSE "after"
       ELSE /\ out' = Append(o, [bytes |-> << >>, err |-> "exhausted"])
            /\ pc' = "done"

\* the except clause reporting every failure to the client
AttemptFailedAlwaysReports(o) ==
    /\ retry_count' = retry_count + 1
    /\ out' = Append(o, [bytes |-> << >>, err |-> "exhausted"])
    /\ pc' = IF retry_count + 1 < max_retries THEN "open" ELSE "done"

\* lines 233-247: the except clause of one attempt, entered with output o
AttemptFailed(o) ==
    /\ retry_count' = retry_count + 1
    /\ IF retry_count + 1 < max_retries
       THEN /\ out' = o
            /\ pc' = LoopPc(retry_count + 1, tool_call_success)
       ELSE /\ out' = Append(o, ErrorItem("exhausted"))
            /\ pc' = "done"

\* lines 220-226 up to the call of use_tools: end of the `async with` body
PostStream(o, acc, tc) ==
    /\ out' = EmitBody(o, acc)
    /\ IF tc = "calls"
       THEN /\ pc' = "tool"
            /\ UNCHANGED << directs, direct_answer >>
       ELSE /\ pc' = LoopPc(retry_count, tool_call_success)
            /\ directs' = directs + 1
            /\ direct_answer' = (direct_answer \/ tc = "None")

\* the corrective message of the commented-out lines 237-241 sent with a retry
SeekPayloadWithGuidance ==
    [phase |-> "seek", model |-> DataGetModel(data),
     messages |-> IF retry_count > 0
                  THEN Append(messages, [role |-> "system", content |-> "guidance"])
                  ELSE messages,
     tools |-> TRUE, stream |-> is_streaming]

\* lines 189-194: the body of a tool-seeking call
SeekPayload ==
    [phase |-> "seek", model |-> DataGetModel(data), messages |-> messages,
     tools |-> TRUE, stream |-> is_streaming]

\* lines 186-198: one tool-seeking upstream call is issued
OpenSeek ==
    /\ pc = "open"
    /\ calls' = Append(calls, SeekPayload)
    /\ pos' = 0
    /\ \E ok \in BOOLEAN :
         IF ok
         THEN /\ pc' = "read"
              /\ accumulated_response' = << >>
              /\ tool_calls' = "None"
              /\ \E st \in Statuses : OpenResponse(st)
              /\ UNCHANGED << retry_count, out >>
         ELSE /\ AttemptFailed(out)
              /\ KeepResponse
              /\ UNCHANGED << accumulated_response, tool_calls >>
    /\ UNCHANGED << server, data, is_streaming, messages, tool_call_success, result,
                    received, invocations, returned, directs, direct_answer >>
    /\ UNCHANGED side_vars

\* lines 199-218: one chunk of the tool-seeking pass
ReadChunk ==
    /\ pc = "read"
    /\ Len(received) < MaxChunks
    /\ \E kind \in ChunkKinds :
         LET c == Chunk("seek", kind)
             p == Parse(kind)
         IN  /\ received' = Append(received, c)
             /\ pos' = pos + 1
             /\ (p = "empty_tool_calls" => directs < MaxDirect)
             /\ CASE p \in {"relay", "decode_error"} ->
                       /\ out' = Emit(out, c)
                       /\ accumulated_response' = Accumulate(accumulated_response, c)
                       /\ KeepResponse
                       /\ UNCHANGED << pc, tool_calls, retry_count, directs, direct_answer >>
                  [] p = "tool_calls" ->
                       /\ tool_calls' = "calls"
                       /\ PostStream(out, accumulated_response, "calls")
                       /\ CloseResponse
                       /\ UNCHANGED << accumulated_response, retry_count >>
                  [] p = "empty_tool_calls" ->
                       /\ tool_calls' = "empty"
                       /\ PostStream(out, accumulated_response, "empty")
                       /\ CloseResponse
                       /\ UNCHANGED << accumulated_response, retry_count >>
                  [] p = "raise" ->
                       /\ AttemptFailed(out)
                       /\ CloseResponse
                       /\ UNCHANGED << accumulated_response, tool_calls, directs, direct_answer >>
    /\ UNCHANGED << server, data, is_streaming, messages, tool_call_success, result, calls,
                    invocations, returned >>
    /\ UNCHANGED side_vars

\* line 199 exhausted, then lines 220-226: the backend closed the response
EndOfStream ==
    /\ pc = "read"
    /\ directs < MaxDirect
    /\ PostStream(out, accumulated_response, tool_calls)
    /\ UNCHANGED << server, data, is_streaming, messages, retry_count, tool_call_success,
                    tool_calls, accumulated_response, result, calls, pos,
                    received, invocations, returned >>
    /\ CloseResponse
    /\ UNCHANGED side_vars

\* line 199 raising: the connection drops while the pass is being read
StreamRaises ==
    /\ pc = "read"
    /\ AttemptFailed(out)
    /\ UNCHANGED << server, data, is_streaming, messages, tool_call_success, tool_calls,
                    accumulated_response, result, calls, pos,
                    received, invocations, returned, directs, direct_answer >>
    /\ CloseResponse
    /\ UNCHANGED side_vars

\* a raising use_tools ending the request at once
UseToolsFatal ==
    /\ pc = "tool"
    /\ invocations' = Append(invocations, LastPass)
    /\ \E ok \in BOOLEAN :
         IF ok
         THEN /\ result' = LastPass
              /\ tool_call_success' = TRUE
              /\ returned' = returned + 1
              /\ pc' = "after"
              /\ UNCHANGED << retry_count, out >>
         ELSE /\ out' = Append(out, [bytes |-> << >>, err |-> "exhausted"])
              /\ pc' = "done"
              /\ UNCHANGED << retry_count, result, tool_call_success, returned >>
    /\ UNCHANGED << server, data, is_streaming, messages, tool_calls, accumulated_response,
                    calls, pos, received, directs, direct_answer, response, open_streams,
                    disconnected >>
    /\ UNCHANGED side_vars

\* lines 224-226: use_tools is entered, and returns or raises
UseTools ==
    /\ pc = "tool"
    /\ invocations' = Append(invocations, LastPass)
    /\ \E ok \in BOOLEAN :
         IF ok
         THEN /\ result' = LastPass
              /\ tool_call_success' = TRUE
              /\ returned' = returned + 1
              /\ pc' = LoopPc(retry_count, TRUE)
              /\ UNCHANGED << retry_count, out >>
         ELSE /\ AttemptFailed(out)
              /\ UNCHANGED << result, tool_call_success, returned >>
    /\ UNCHANGED << server, data, is_streaming, messages, tool_calls, accumulated_response,
                    calls, pos, received, directs, direct_answer >>
    /\ KeepResponse
    /\ UNCHANGED side_vars

\* the second payload built like the first one
FinalPayloadWithTools(msgs) ==
    [phase |-> "final", model |-> DataGetModel(data), messages |-> msgs,
     tools |-> TRUE, stream |-> is_streaming]

FinalPayload(msgs) ==
    [phase |-> "final", model |-> DataGetModel(data), messages |-> msgs,
     tools |-> FALSE, stream |-> is_streaming]

\* the tool message is not added
AppendToolSkipped(msgs, r) == msgs

\* the tool message put in front of the conversation
AppendToolFirst(msgs, r) == <<ToolMsg(r)>> \o msgs

\* lines 250-253: messages.append({'role': 'tool', 'content': str(result)})
AppendTool(msgs, r) == Append(msgs, ToolMsg(r))

\* the outer handler going back to the second pass
OuterExceptRetries ==
    /\ out' = Append(out, [bytes |-> << >>, err |-> "outer"])
    /\ pc' = IF pc = "relay" THEN "after" ELSE "done"

\* lines 276-279: an exception outside the retry loop
OuterExcept ==
    /\ out' = Append(out, ErrorItem("outer"))
    /\ pc' = "done"

\* lines 249-265: the tool message is appended and the second call is issued
SecondPass ==
    /\ pc = "after"
    /\ IF tool_call_success
       THEN /\ messages' = AppendTool(messages, result)
            /\ data' = IF data.has_messages
                       THEN [data EXCEPT !.messages = messages']
                       ELSE data
            /\ calls' = Append(calls, FinalPayload(messages'))
            /\ pos' = 0
            /\ accumulated_response' = << >>
            /\ \E ok \in BOOLEAN :
                 IF ok THEN pc' = "relay" /\ out' = out /\ OpenResponse("ok")
                       ELSE OuterExcept /\ KeepResponse
       ELSE /\ pc' = "done"
            /\ KeepResponse
            /\ UNCHANGED << messages, data, calls, pos, out, accumulated_response >>
    /\ UNCHANGED << server, is_streaming, retry_count, tool_call_success, tool_calls, result,
                    received, invocations, returned, directs, direct_answer >>
    /\ UNCHANGED side_vars

\* lines 266-270: one chunk of the second pass
RelayChunk ==
    /\ pc = "relay"
    /\ pos < MaxRelay
    /\ \E kind \in RelayKinds :
         LET c == Chunk("final", kind)
         IN  /\ received' = Append(received, c)
             /\ out' = Emit(out, c)
             /\ accumulated_response' = Accumulate(accumulated_response, c)
    /\ pos' = pos + 1
    /\ UNCHANGED << server, data, is_streaming, messages, pc, retry_count, tool_call_success,
                    tool_calls, result, calls, invocations, returned, directs,
                    direct_answer >>
    /\ KeepResponse
    /\ UNCHANGED side_vars

\* lines 272-274: the second pass ends
RelayEnd ==
    /\ pc = "relay"
    /\ out' = EmitBody(out, accumulated_response)
    /\ pc' = "done"
    /\ UNCHANGED << server, data, is_streaming, messages, retry_count, tool_call_success,
                    tool_calls, accumulated_response, result, calls, pos,
                    received, invocations, returned, directs, direct_answer >>
    /\ CloseResponse
    /\ UNCHANGED side_vars

\* line 266 raising: the connection drops during the second pass
RelayRaises ==
    /\ pc = "relay"
    /\ OuterExcept
    /\ UNCHANGED << server, data, is_streaming, messages, retry_count, tool_call_success,
                    tool_calls, accumulated_response, result, calls, pos,
                    received, invocations, returned, directs, direct_answer >>
    /\ CloseResponse
    /\ UNCHANGED side_vars

BypassPayload ==
    [phase |-> "bypass", model |-> FixedModel, messages |-> data.messages,
     tools |-> FALSE, stream |-> is_streaming]

\* lines 163-173: the housekeeping call; data['messages'] raises KeyError when absent
BypassOpen ==
    /\ pc = "bypass"
    /\ IF ~data.has_messages
       THEN /\ OuterExcept
            /\ KeepResponse
            /\ UNCHANGED calls
       ELSE /\ calls' = Append(calls, BypassPayload)
            /\ \E ok \in BOOLEAN :
                 IF ok THEN pc' = "bypass_relay" /\ out' = out /\ OpenResponse("ok")
                       ELSE OuterExcept /\ KeepResponse
    /\ UNCHANGED << server, data, is_streaming, messages, retry_count, tool_call_success,
                    tool_calls, accumulated_response, result, pos,
                    received, invocations, returned, directs, direct_answer >>
    /\ UNCHANGED side_vars

\* lines 174-175: every chunk of the housekeeping call is yielded as it arrives
BypassChunk ==
    /\ pc = "bypass_relay"
    /\ pos < MaxRelay
    /\ \E kind \in RelayKinds :
         LET c == Chunk("bypass", kind)
         IN  /\ received' = Append(received, c)
             /\ out' = Append(out, Item(<<c>>))
    /\ pos' = pos + 1
    /\ UNCHANGED << server, data, is_streaming, messages, pc, retry_count, tool_call_success,
                    tool_calls, accumulated_response, result, calls,
                    invocations, returned, directs, direct_answer >>
    /\ KeepResponse
    /\ UNCHANGED side_vars

\* line 174 exhausted: the housekeeping response ends
BypassEnd ==
    /\ pc = "bypass_relay"
    /\ pc' = "done"
    /\ UNCHANGED << server, data, is_streaming, messages, retry_count, tool_call_success,
                    tool_calls, accumulated_response, result, out, calls, pos,
                    received, invocations, returned, directs, direct_answer >>
    /\ CloseResponse
    /\ UNCHANGED side_vars

\* line 174 raising
BypassRaises ==
    /\ pc = "bypass_relay"
    /\ OuterExcept
    /\ UNCHANGED << server, data, is_streaming, messages, retry_count, tool_call_success,
                    tool_calls, accumulated_response, result, calls, pos,
                    received, invocations, returned, directs, direct_answer >>
    /\ CloseResponse
    /\ UNCHANGED side_vars

ProxyPayload(d) ==
    [phase |-> "proxy", model |-> d.model, messages |-> d.messages,
     tools |-> FALSE, stream |-> is_streaming]

\* custom_llm_server.py lines 56-70: injection, then the single upstream call
ProxyOpen ==
    /\ pc = "start"
    /\ endpoint = "chat"
    /\ server \in {"proxy", "proxy_buffered"}
    /\ data' = IF data.has_messages
               THEN [data EXCEPT !.messages = InjectSystem(@, ProxySysMsg)]
               ELSE data
    /\ calls' = Append(calls, ProxyPayload(data'))
    /\ pos' = 0
    /\ \E ok \in BOOLEAN :
         IF ok THEN pc' = "proxy_relay" /\ out' = out /\ OpenResponse("ok")
               ELSE OuterExcept /\ KeepResponse
    /\ UNCHANGED << server, is_streaming, messages, retry_count, tool_call_success,
                    tool_calls, accumulated_response, result,
                    received, invocations, returned, directs, direct_answer >>
    /\ UNCHANGED side_vars

\* a proxy that relays chunk by chunk whatever the request's stream flag
ProxyBuffersNever == FALSE

\* open_webui copy lines 96-105: the body is accumulated when stream is false
ProxyBuffers == server = "proxy_buffered" /\ ~is_streaming

\* custom_llm_server.py lines 71-72; open_webui copy lines 96-104
ProxyChunk ==
    /\ pc = "proxy_relay"
    /\ pos < MaxRelay
    /\ \E kind \in RelayKinds :
         LET c == Chunk("proxy", kind)
         IN  /\ received' = Append(received, c)
             /\ IF ProxyBuffers
                THEN /\ accumulated_response' = Append(accumulated_response, c)
                     /\ out' = out
                ELSE /\ out' = Append(out, Item(<<c>>))
                     /\ UNCHANGED accumulated_response
    /\ pos' = pos + 1
    /\ UNCHANGED << server, data, is_streaming, messages, pc, retry_count,
                    tool_call_success, tool_calls, result, calls,
                    invocations, returned, directs, direct_answer >>
    /\ KeepResponse
    /\ UNCHANGED side_vars

\* the upstream response ends; open_webui copy line 105 yields the full body
ProxyEnd ==
    /\ pc = "proxy_relay"
    /\ out' = IF ProxyBuffers THEN Append(out, Item(accumulated_response)) ELSE out
    /\ pc' = "done"
    /\ UNCHANGED << server, data, is_streaming, messages, retry_count, tool_call_success,
                    tool_calls, accumulated_response, result, calls, pos,
                    received, invocations, returned, directs, direct_answer >>
    /\ CloseResponse
    /\ UNCHANGED side_vars

\* custom_llm_server.py lines 73-75
ProxyRaises ==
    /\ pc = "proxy_relay"
    /\ OuterExcept
    /\ UNCHANGED << server, data, is_streaming, messages, retry_count, tool_call_success,
                    tool_calls, accumulated_response, result, calls, pos,
                    received, invocations, returned, directs, direct_answer >>
    /\ CloseResponse
    /\ UNCHANGED side_vars

\* `except:` in place of `except Exception`
ExceptAnything(e) == TRUE

\* lines 233 and 276: what `except Exception` catches; GeneratorExit, thrown into
\* a generator that is closed while suspended at a yield, is not an Exception
ExceptException(e) == e # "GeneratorExit"

\* the generator is suspended at a yield of a chunk (lines 210, 216, 268, 175)
SuspendedAtYield ==
    /\ server = "tools"
    /\ pos > 0
    /\ \/ pc \in {"read", "relay"} /\ is_streaming
       \/ pc = "bypass_relay"

\* the client disconnects: the response generator is closed where it is suspended
Disconnect ==
    /\ SuspendedAtYield
    /\ disconnected' = TRUE
    /\ response' = "none"
    /\ open_streams' = CloseStream(open_streams)
    /\ IF ExceptException("GeneratorExit")
       THEN IF pc = "read" THEN AttemptFailed(out) ELSE OuterExcept /\ UNCHANGED retry_count
       ELSE /\ pc' = "cancelled"
            /\ UNCHANGED << out, retry_count >>
    /\ UNCHANGED << server, data, is_streaming, messages, tool_call_success, tool_calls,
                    accumulated_response, result, calls, pos,
                    received, invocations, returned, directs, direct_answer >>
    /\ UNCHANGED side_vars

Next ==
    \/ Begin
    \/ OpenSeek
    \/ ReadChunk
    \/ EndOfStream
    \/ StreamRaises
    \/ UseTools
    \/ SecondPass
    \/ RelayChunk
    \/ RelayEnd
    \/ RelayRaises
    \/ BypassOpen
    \/ BypassChunk
    \/ BypassEnd
    \/ BypassRaises
    \/ ProxyOpen
    \/ ProxyChunk
    \/ ProxyEnd
    \/ ProxyRaises
    \/ Disconnect

Spec == Init /\ [][Next]_vars

----------------------------------------------------------------------------
(* The other endpoints of the tool server: GET /api/tags and POST           *)
(* /api/generate (custom_llm_server_with_tools.py lines 100-117, 286-329)   *)

Endpoints == {"tags", "generate"}

\* status classes the backend can answer GET /api/tags with
TagsStatuses == {"2xx", "3xx", "4xx", "5xx"}

\* what the body of that answer can be: the encoding of a model list, or bytes
\* that are not JSON
ModelLists == {<< >>, <<"llama3.2:1b">>, <<"llama3.2:1b", "llama3.1:latest">>}

TagsBodies == [json : {TRUE}, models : ModelLists] \cup [json : {FALSE}, models : {<< >>}]

\* what the request itself can raise
TagsErrors == {"ConnectError", "ReadTimeout"}

\* a status check that lets every answer through
RaiseForStatusNever(st) == FALSE

\* line 110: response.raise_for_status() raises HTTPStatusError unless the status
\* is a success status
RaiseForStatus(st) == st # "2xx"

\* line 111: response.json() gives the decoded body or raises
JsonRaises(b) == ~b.json

\* line 117
ErrorReply(e) == [error |-> e]

\* lines 106-109: the handler is entered and the request to the backend is sent
TagsRequest ==
    /\ pc = "start"
    /\ endpoint = "tags"
    /\ calls' = Append(calls, [phase |-> "tags"])
    /\ pc' = "tags_wait"
    /\ UNCHANGED << server, data, is_streaming, messages, retry_count, tool_call_success,
                    tool_calls, accumulated_response, result, out, pos, received,
                    invocations, returned, directs, direct_answer, response, open_streams,
                    disconnected >>
    /\ UNCHANGED side_vars

\* the handler returns v, or ends with the exception e when no clause catches it
TagsReturn(raised, e, v) ==
    IF ~raised
    THEN reply' = v /\ pc' = "done"
    ELSE IF ExceptException(e)
         THEN reply' = ErrorReply(e) /\ pc' = "done"
         ELSE reply' = reply /\ pc' = "raised"

\* lines 109-117: the request raises, or the answer arrives and is checked, decoded
\* and returned
TagsResponse ==
    /\ pc = "tags_wait"
    /\ \/ /\ \E e \in TagsErrors : TagsReturn(TRUE, e, << >>)
          /\ UNCHANGED response
          /\ UNCHANGED received
       \/ \E st \in TagsStatuses, b \in TagsBodies :
            /\ response' = st
            /\ received' = <<b>>
            /\ IF RaiseForStatus(st)
               THEN TagsReturn(TRUE, "HTTPStatusError", << >>)
               ELSE IF JsonRaises(b)
                    THEN TagsReturn(TRUE, "JSONDecodeError", << >>)
                    ELSE TagsReturn(FALSE, "none", b.models)
    /\ UNCHANGED << server, data, is_streaming, messages, retry_count, tool_call_success,
                    tool_calls, accumulated_response, result, out, calls, pos,
                    invocations, returned, directs, direct_answer, open_streams,
                    disconnected >>
    /\ UNCHANGED << endpoint, body, tool_vars >>

GeneratePrefix == "Process this request: "

\* a prompt is the sequence of its parts
Prompts == {<< >>, <<"hi">>, <<GeneratePrefix, "hi">>}

\* the metadata field: missing, or an object without or with a task
Metadatas == {"absent", "no_task", "task"}

GenerateBodies ==
    [has_prompt : {TRUE}, prompt : Prompts, metadata : Metadatas, model : Models]
    \cup [has_prompt : {FALSE}, prompt : {<< >>}, metadata : Metadatas, model : Models]

\* the instruction added after the prompt
PrefixPromptBehind(d) ==
    IF d.has_prompt THEN [d EXCEPT !.prompt = @ \o <<GeneratePrefix>>] ELSE d

\* lines 299-300
PrefixPrompt(d) ==
    IF d.has_prompt THEN [d EXCEPT !.prompt = <<GeneratePrefix>> \o @] ELSE d

\* line 318: json=data
GeneratePayload(d) == [phase |-> "generate", body |-> d]

\* lines 323-324
GenerateExcept ==
    /\ out' = Append(out, ErrorItem("generate"))
    /\ pc' = "done"

\* lines 296-320: the prompt is prefixed (the metadata is only printed) and the
\* call is issued
GenerateOpen ==
    /\ pc = "start"
    /\ endpoint = "generate"
    /\ data' = PrefixPrompt(data)
    /\ pos' = 0
    /\ calls' = Append(calls, GeneratePayload(data'))
    /\ \E ok \in BOOLEAN :
         IF ok THEN pc' = "generate_relay" /\ out' = out /\ OpenResponse("ok")
               ELSE GenerateExcept /\ KeepResponse
    /\ UNCHANGED << server, is_streaming, messages, retry_count, tool_call_success,
                    tool_calls, accumulated_response, result, received,
                    invocations, returned, directs, direct_answer >>
    /\ UNCHANGED side_vars

\* lines 321-322: every chunk is yielded as it arrives
GenerateChunk ==
    /\ pc = "generate_relay"
    /\ pos < MaxRelay
    /\ \E kind \in RelayKinds :
         LET c == Chunk("generate", kind)
         IN  /\ received' = Append(received, c)
             /\ out' = Append(out, Item(<<c>>))
    /\ pos' = pos + 1
    /\ UNCHANGED << server, data, is_streaming, messages, pc, retry_count, tool_call_success,
                    tool_calls, accumulated_response, result, calls,
                    invocations, returned, directs, direct_answer >>
    /\ KeepResponse
    /\ UNCHANGED side_vars

\* line 321 exhausted: the backend closed the response
GenerateEnd ==
    /\ pc = "generate_relay"
    /\ pc' = "done"
    /\ UNCHANGED << server, data, is_streaming, messages, retry_count, tool_call_success,
                    tool_calls, accumulated_response, result, out, calls, pos,
                    received, invocations, returned, directs, direct_answer >>
    /\ CloseResponse
    /\ UNCHANGED side_vars

\* line 321 raising
GenerateRaises ==
    /\ pc = "generate_relay"
    /\ GenerateExcept
    /\ UNCHANGED << server, data, is_streaming, messages, retry_count, tool_call_success,
                    tool_calls, accumulated_response, result, calls, pos,
                    received, invocations, returned, directs, direct_answer >>
    /\ CloseResponse
    /\ UNCHANGED side_vars

\* the state of a chat request in a behaviour that has none
ChatIdle ==
    /\ server = "tools"
    /\ is_streaming = TRUE
    /\ messages = << >>
    /\ pc = "start"
    /\ retry_count = 0
    /\ tool_call_success = FALSE
    /\ tool_calls = "None"
    /\ accumulated_response = << >>
    /\ result = 0
    /\ out = << >>
    /\ calls = << >>
    /\ pos = 0
    /\ received = << >>
    /\ invocations = << >>
    /\ returned = 0
    /\ directs = 0
    /\ direct_answer = FALSE
    /\ response = "none"
    /\ open_streams = 0
    /\ disconnected = FALSE

\* one request to one of the two endpoints
EndpointInit ==
    /\ ChatIdle
    /\ endpoint \in Endpoints
    /\ data \in IF endpoint = "generate" THEN GenerateBodies ELSE {"none"}
    /\ body = data
    /\ reply = "none"
    /\ ToolsIdle

EndpointNext ==
    \/ TagsRequest
    \/ TagsResponse
    \/ GenerateOpen
    \/ GenerateChunk
    \/ GenerateEnd
    \/ GenerateRaises

EndpointSpec == EndpointInit /\ [][EndpointNext]_vars

----------------------------------------------------------------------------
(* The capability library: nba_tools.py.  A string is the sequence of its   *)
(* characters, except that the fixed text of a message is one element; an   *)
(* argument is a Python value of one of three types.                        *)

Str(s) == [type |-> "str", val |-> s]

IntArg(digits) == [type |-> "int", val |-> digits]

None == [type |-> "None", val |-> << >>]

\* `not x`: the empty string, 0 and None are false
Not(x) == x.val = << >> \/ x = IntArg(<<"0">>)

\* f"{x}"
Format(x) == IF x.type = "None" THEN <<"None">> ELSE x.val

UpperCase ==
    <<"A", "B", "C", "D", "E", "F", "G", "H", "I", "J", "K", "L", "M",
      "N", "O", "P", "Q", "R", "S", "T", "U", "V", "W", "X", "Y", "Z">>

LowerCase ==
    <<"a", "b", "c", "d", "e", "f", "g", "h", "i", "j", "k", "l", "m",
      "n", "o", "p", "q", "r", "s", "t", "u", "v", "w", "x", "y", "z">>

LowerChar(c) ==
    IF \E i \in DOMAIN UpperCase : UpperCase[i] = c
    THEN LowerCase[CHOOSE i \in DOMAIN UpperCase : UpperCase[i] = c]
    ELSE c

\* str.lower()
RECURSIVE lower(_)
lower(s) == IF s = << >> THEN << >> ELSE <<LowerChar(Head(s))>> \o lower(Tail(s))

\* `a in b` for two strings
In(a, b) == \E i \in 0..(Len(b) - Len(a)) : SubSeq(b, i + 1, i + Len(a)) = a

\* the strings of the mock data, of the tests and of the provider's data
Text ==
    [GoldenStateWarriors |->
        <<"G", "o", "l", "d", "e", "n", " ", "S", "t", "a",
          "t", "e", " ", "W", "a", "r", "r", "i", "o", "r", "s">>,
     LosAngelesLakers |->
        <<"L", "o", "s", " ", "A", "n", "g", "e", "l",
          "e", "s", " ", "L", "a", "k", "e", "r", "s">>,
     NonExistentTeam |->
        <<"N", "o", "n", "E", "x", "i", "s", "t",
          "e", "n", "t", " ", "T", "e", "a", "m">>,
     LAClippers |->
        <<"L", "A", " ", "C", "l",
          "i", "p", "p", "e", "r", "s">>,
     Stephen |-> <<"S", "t", "e", "p", "h", "e", "n">>,
     Warriors |-> <<"W", "a", "r", "r", "i", "o", "r", "s">>,
     warriors |-> <<"w", "a", "r", "r", "i", "o", "r", "s">>,
     Clippers |-> <<"C", "l", "i", "p", "p", "e", "r", "s">>,
     Lakers |-> <<"L", "a", "k", "e", "r", "s">>,
     LeBron |-> <<"L", "e", "B", "r", "o", "n">>,
     lebron |-> <<"l", "e", "b", "r", "o", "n">>,
     Curry |-> <<"C", "u", "r", "r", "y">>,
     James |-> <<"J", "a", "m", "e", "s">>,
     james |-> <<"j", "a", "m", "e", "s">>,
     John |-> <<"J", "o", "h", "n">>,
     Seth |-> <<"S", "e", "t", "h">>,
     Doe |-> <<"D", "o", "e">>,
     War |-> <<"W", "a", "r">>,
     Lak |-> <<"L", "a", "k">>]

\* lines 9-39, 41-58, 100-109: the fields of the mock data the capabilities read
MOCK_PLAYERS ==
    << [id |-> 1, first_name |-> Text.Stephen, last_name |-> Text.Curry],
       [id |-> 2, first_name |-> Text.LeBron, last_name |-> Text.James] >>

MOCK_TEAMS ==
    << [id |-> 1, name |-> Text.Warriors, full_name |-> Text.GoldenStateWarriors],
       [id |-> 2, name |-> Text.Lakers, full_name |-> Text.LosAngelesLakers] >>

MOCK_GAMES ==
    << [id |-> 1, home_team |-> MOCK_TEAMS[1], visitor_team |-> MOCK_TEAMS[2]] >>

\* what a capability call ends with: a value returned, or an exception
Returns(v) == [tag |-> "result", value |-> v, exc |-> "none"]

ErrorIndicator(msg) == [tag |-> "error", value |-> msg, exc |-> "none"]

\* {"error": f"<msg>{str(e)}"}
ErrorFrom(msg, e) == [tag |-> "error", value |-> msg, exc |-> e]

Raises(e) == [tag |-> "raise", value |-> << >>, exc |-> e]

NoReturn == [tag |-> "none", value |-> << >>, exc |-> "none"]

\* x.lower() raises AttributeError unless x is a string
LowerRaises(x) == x.type # "str"

\* line 199: both names are looked for in the full name; `and` evaluates its
\* second operand only when the first holds
PlayerTest(p, first, last) ==
    LET full_name == p.first_name \o <<" ">> \o p.last_name
    IN  IF LowerRaises(first) THEN "raise"
        ELSE IF ~In(lower(first.val), lower(full_name)) THEN "no"
        ELSE IF LowerRaises(last) THEN "raise"
        ELSE IF In(lower(last.val), lower(full_name)) THEN "match" ELSE "no"

NoPlayerFound(first, last) ==
    ErrorIndicator(<<"No player found with name ">> \o Format(first) \o <<" ">> \o Format(last))

\* lines 196-203: the search through the mock players, from player i on
RECURSIVE MockPlayerSearch(_, _, _)
MockPlayerSearch(i, first, last) ==
    IF i > Len(MOCK_PLAYERS) THEN NoPlayerFound(first, last)
    ELSE LET t == PlayerTest(MOCK_PLAYERS[i], first, last)
         IN  CASE t = "raise" -> Raises("AttributeError")
               [] t = "match" -> Returns(MOCK_PLAYERS[i])
               [] t = "no"    -> MockPlayerSearch(i + 1, first, last)

\* a team matching when its name is the argument
TeamTestExact(team, team_name) ==
    IF LowerRaises(team_name) THEN "raise"
    ELSE IF \/ lower(team_name.val) = lower(team.full_name)
            \/ lower(team_name.val) = lower(team.name)
         THEN "match" ELSE "no"

\* line 243 and line 267: the name is looked for in the full name, then in the name
TeamTest(team, team_name) ==
    IF LowerRaises(team_name) THEN "raise"
    ELSE IF \/ In(lower(team_name.val), lower(team.full_name))
            \/ In(lower(team_name.val), lower(team.name))
         THEN "match" ELSE "no"

\* lines 241-257 and 265-278: the matching teams are collected and counted
TeamSearch(teams, team_name) ==
    LET matching_teams == SelectSeq(teams, LAMBDA t : TeamTest(t, team_name) = "match")
    IN  IF teams # << >> /\ LowerRaises(team_name) THEN Raises("AttributeError")
        ELSE IF Len(matching_teams) > 1
             THEN ErrorIndicator(<<"Multiple teams found. Please use full team name.">>)
        ELSE IF Len(matching_teams) = 1 THEN Returns(matching_teams[1])
        ELSE ErrorIndicator(<<"No team found with name ">> \o Format(team_name))

\* lines 310-311: home and visitor names are compared for equality
MockGameTest(game, home_team, away_team) ==
    IF LowerRaises(home_team) THEN "raise"
    ELSE IF lower(game.home_team.name) # lower(home_team.val) THEN "no"
    ELSE IF LowerRaises(away_team) THEN "raise"
    ELSE IF lower(game.visitor_team.name) = lower(away_team.val) THEN "match" ELSE "no"

\* lines 343-344: the arguments are looked for in the names
ApiGameTest(game, home_team, away_team) ==
    IF LowerRaises(home_team) THEN "raise"
    ELSE IF ~In(lower(home_team.val), lower(game.home_team.name)) THEN "no"
    ELSE IF LowerRaises(away_team) THEN "raise"
    ELSE IF In(lower(away_team.val), lower(game.visitor_team.name)) THEN "match" ELSE "no"

\* line 310 for the mock games, line 343 for the provider's
GameTest(mock, game, home_team, away_team) ==
    IF mock THEN MockGameTest(game, home_team, away_team)
    ELSE ApiGameTest(game, home_team, away_team)

\* lines 308-319 and 341-352: the matching games, or the error indicator
GameSearch(games, mock, home_team, away_team) ==
    LET tests == [i \in DOMAIN games |-> GameTest(mock, games[i], home_team, away_team)]
        matching_games ==
            SelectSeq(games, LAMBDA g : GameTest(mock, g, home_team, away_team) = "match")
    IN  IF \E i \in DOMAIN games : tests[i] = "raise" THEN Raises("AttributeError")
        ELSE IF Len(matching_games) >= 1 THEN Returns(matching_games)
        ELSE ErrorIndicator(<<"No games found">>)

Capabilities == {"get_player_info", "get_team_info", "get_game_info"}

\* the functions nba_tools.py defines: its `def` statements that are not
\* commented out (from line 361 on every definition is a comment)
Defined ==
    {"set_debug_mode", "debug_print", "set_use_mock_data",
     "get_player_info", "get_team_info", "get_game_info"}

\* custom_llm_server_with_tools.py lines 14-23: the names imported from nba_tools
Imported ==
    {"get_player_injuries", "get_game_odds", "get_head_to_head_stats",
     "get_league_leaders", "get_player_info", "get_team_info", "get_team_standings"}

\* custom_llm_server_with_tools.py lines 82-92: the names described to the
\* model in `tools` and registered in `functions`
Advertised ==
    {"get_player_injuries", "get_game_odds", "get_head_to_head_stats",
     "get_league_leaders", "get_player_info", "get_team_info", "get_team_standings"}

\* `from nba_tools import name`: the function, or ImportError
Resolve(name) == IF name \in Defined THEN "callable" ELSE "ImportError"

\* the text the except clause of each capability puts before str(e)
FetchError(f) ==
    CASE f = "get_player_info" -> <<"Error fetching player info: ">>
      [] f = "get_team_info"   -> <<"Error fetching team info: ">>
      [] f = "get_game_info"   -> <<"Error fetching game info: ">>

\* lines 192-193, 238-239, 300-305: input validation
Validation(f, a) ==
    CASE f = "get_player_info" ->
           IF Not(a[1]) \/ Not(a[2])
           THEN ErrorIndicator(<<"First name and last name are required">>)
           ELSE NoReturn
      [] f = "get_team_info" ->
           IF Not(a[1]) THEN ErrorIndicator(<<"Team name is required">>) ELSE NoReturn
      [] f = "get_game_info" ->
           IF Not(a[2]) THEN ErrorIndicator(<<"home_team name is required">>)
           ELSE IF Not(a[3]) THEN ErrorIndicator(<<"away_team name is required">>)
           ELSE IF Not(a[1]) THEN ErrorIndicator(<<"season name is required">>)
           ELSE NoReturn

\* the mock branch of each capability
MockBranch(f, a) ==
    CASE f = "get_player_info" -> MockPlayerSearch(1, a[1], a[2])
      [] f = "get_team_info"   -> TeamSearch(MOCK_TEAMS, a[1])
      [] f = "get_game_info"   -> GameSearch(MOCK_GAMES, TRUE, a[2], a[3])

\* lines 206, 260, 333: the request each capability makes to the data provider
ApiRequest(f, a) ==
    CASE f = "get_player_info" -> [resource |-> "players", search |-> Format(a[1])]
      [] f = "get_team_info"   -> [resource |-> "teams", search |-> << >>]
      [] f = "get_game_info"   -> [resource |-> "games", search |-> Format(a[1])]

\* lines 210-221, 261-278, 334-352: what each capability makes of the answer
ApiBranch(f, a, rows) ==
    CASE f = "get_player_info" ->
           IF rows = << >> THEN NoPlayerFound(a[1], a[2]) ELSE Returns(rows[1])
      [] f = "get_team_info"   -> TeamSearch(rows, a[1])
      [] f = "get_game_info"   -> GameSearch(rows, FALSE, a[2], a[3])

\* an except clause that lets the provider's exceptions through
ExceptNoProviderError(f, r) ==
    IF r.tag = "raise" /\ r.exc = "AttributeError" THEN ErrorFrom(FetchError(f), r.exc) ELSE r

\* lines 222-226, 279-283, 355-359: `except Exception` around the whole body
Except(f, r) ==
    IF r.tag = "raise" /\ ExceptException(r.exc) THEN ErrorFrom(FetchError(f), r.exc) ELSE r

(* Inputs *)

FirstNames ==
    {Str(<< >>), Str(Text.Stephen), Str(Text.lebron), Str(Text.Curry), Str(Text.John),
     Str(<<"e">>), IntArg(<<"5">>), None}

LastNames ==
    {Str(<< >>), Str(Text.Curry), Str(Text.james), Str(Text.Stephen), Str(Text.Doe),
     IntArg(<<"5">>)}

TeamNames ==
    {Str(<< >>), Str(Text.GoldenStateWarriors), Str(Text.Lakers), Str(Text.Warriors),
     Str(Text.War), Str(Text.NonExistentTeam), Str(<<"a">>), IntArg(<<"5">>)}

Seasons == {IntArg(<<"2", "0", "2", "3">>), IntArg(<<"0">>)}

HomeTeams == {Str(<< >>), Str(Text.Warriors), Str(Text.warriors), Str(Text.War)}

AwayTeams == {Str(<< >>), Str(Text.Lakers), Str(Text.Lak), IntArg(<<"5">>)}

ArgLists(f) ==
    CASE f = "get_player_info" -> {<<x, y>> : x \in FirstNames, y \in LastNames}
      [] f = "get_team_info"   -> {<<x>> : x \in TeamNames}
      [] f = "get_game_info"   -> {<<s, h, w>> : s \in Seasons, h \in HomeTeams, w \in AwayTeams}

\* what the data provider can raise
ProviderErrors == {"AuthenticationError", "ServerError"}

\* players the provider knows
ProviderPlayers ==
    { [id |-> 115, first_name |-> Text.Stephen, last_name |-> Text.Curry],
      [id |-> 116, first_name |-> Text.Seth, last_name |-> Text.Curry],
      [id |-> 237, first_name |-> Text.LeBron, last_name |-> Text.James] }

ProviderTeams ==
    << [id |-> 10, name |-> Text.Warriors, full_name |-> Text.GoldenStateWarriors],
       [id |-> 13, name |-> Text.Clippers, full_name |-> Text.LAClippers],
       [id |-> 14, name |-> Text.Lakers, full_name |-> Text.LosAngelesLakers] >>

ProviderGames ==
    << [id |-> 7, home_team |-> ProviderTeams[1], visitor_team |-> ProviderTeams[3]],
       [id |-> 8, home_team |-> ProviderTeams[3], visitor_team |-> ProviderTeams[1]] >>

\* the rows of an answer of the provider: response.data, or [] without one
Rows(f) ==
    CASE f = "get_player_info" ->
           {<< >>} \cup {<<p>> : p \in ProviderPlayers}
             \cup {<<p, q>> : p \in ProviderPlayers, q \in ProviderPlayers}
      [] f = "get_team_info"   -> {<< >>, ProviderTeams}
      [] f = "get_game_info"   -> {<< >>, ProviderGames, <<ProviderGames[2]>>}

(* Actions *)

\* the flag tested by every capability but get_game_info
InMockModeButGames(f) == USE_MOCK_DATA /\ f # "get_game_info"

\* lines 195, 243, 306: `if USE_MOCK_DATA:` after the validation of each capability
InMockMode(f) == USE_MOCK_DATA

\* lines 147-154
set_use_mock_data(use_mock) ==
    /\ tool_pc \in {"idle", "returned"}
    /\ USE_MOCK_DATA # use_mock
    /\ USE_MOCK_DATA' = use_mock
    /\ UNCHANGED << tool_pc, fn, args, ret, api_requests, functions >>
    /\ UNCHANGED << chat_vars, endpoint, body, reply >>

\* a capability is called: validation, then the mock branch or the request to the
\* provider
ToolCall ==
    /\ tool_pc \in {"idle", "returned"}
    /\ \E f \in Capabilities :
         \E a \in ArgLists(f) :
            /\ fn' = f
            /\ args' = a
            /\ IF Validation(f, a) # NoReturn
               THEN /\ ret' = Validation(f, a)
                    /\ tool_pc' = "returned"
                    /\ api_requests' = << >>
               ELSE IF InMockMode(f)
               THEN /\ ret' = Except(f, MockBranch(f, a))
                    /\ tool_pc' = IF ret'.tag = "raise" THEN "raised" ELSE "returned"
                    /\ api_requests' = << >>
               ELSE /\ ret' = NoReturn
                    /\ tool_pc' = "api"
                    /\ api_requests' = <<ApiRequest(f, a)>>
    /\ UNCHANGED << USE_MOCK_DATA, functions >>
    /\ UNCHANGED << chat_vars, endpoint, body, reply >>

\* the provider raises
ApiRaises ==
    /\ tool_pc = "api"
    /\ \E e \in ProviderErrors :
         /\ ret' = Except(fn, Raises(e))
         /\ tool_pc' = IF ret'.tag = "raise" THEN "raised" ELSE "returned"
    /\ UNCHANGED << USE_MOCK_DATA, fn, args, api_requests, functions >>
    /\ UNCHANGED << chat_vars, endpoint, body, reply >>

\* the provider answers
ApiAnswers ==
    /\ tool_pc = "api"
    /\ \E rows \in Rows(fn) :
         /\ ret' = Except(fn, ApiBranch(fn, args, rows))
         /\ tool_pc' = IF ret'.tag = "raise" THEN "raised" ELSE "returned"
    /\ UNCHANGED << USE_MOCK_DATA, fn, args, api_requests, functions >>
    /\ UNCHANGED << chat_vars, endpoint, body, reply >>

\* custom_llm_server_with_tools.py lines 14-23 and 82-92: the module is imported;
\* the import of a name nba_tools does not define raises ImportError, otherwise
\* every described function is registered under its name
LoadServer ==
    /\ tool_pc \in {"idle", "returned"}
    /\ functions.status = "unloaded"
    /\ functions' = IF \A name \in Imported : Resolve(name) = "callable"
                    THEN [status |-> "loaded", names |-> Advertised]
                    ELSE [status |-> "ImportError", names |-> {}]
    /\ UNCHANGED << USE_MOCK_DATA, tool_pc, fn, args, ret, api_requests >>
    /\ UNCHANGED << chat_vars, endpoint, body, reply >>

\* the library with no request being served
ToolInit ==
    /\ ChatIdle
    /\ data = "none"
    /\ endpoint = "none"
    /\ body = "none"
    /\ reply = "none"
    /\ ToolsIdle

ToolNext ==
    \/ \E b \in BOOLEAN : set_use_mock_data(b)
    \/ ToolCall
    \/ ApiRaises
    \/ ApiAnswers
    \/ LoadServer

ToolSpec == ToolInit /\ [][ToolNext]_vars

----------------------------------------------------------------------------
(* Observations used by the properties *)

ToolPath == server = "tools" /\ FunctionCall(data)

CountPhase(ph) == Cardinality({i \in 1..Len(calls) : calls[i].phase = ph})

ErrorCount(o) == Cardinality({i \in 1..Len(o) : o[i].err # "none"})

RECURSIVE Relayed(_)
Relayed(o) == IF o = << >> THEN << >> ELSE o[1].bytes \o Relayed(Tail(o))

FromPhase(chunks, ph) == SelectSeq(chunks, LAMBDA c : c.phase = ph)

NoToolField == \A i \in 1..Len(received) : received[i].kind \notin {"tool", "emptytool"}

Exhausted == ToolPath /\ pc = "done" /\ retry_count = max_retries

----------------------------------------------------------------------------
(* C1: once a tool-seeking pass has ended with no tool call detected and no *)
(* exception, the handler issues no further upstream call and invokes no    *)
(* tool.                                                                    *)
C1_DirectAnswerIsTerminal ==
    [][(ToolPath /\ direct_answer) =>
          (calls' = calls /\ invocations' = invocations)]_vars

(* C2: in a streamed tool-path request in which the backend never emits a   *)
(* tool-call field and nothing raises, what is relayed is the chunks of one *)
(* upstream pass, in order, each once, and nothing else.                    *)
C2_RelayEqualsOnePass ==
    (ToolPath /\ is_streaming /\ NoToolField /\ retry_count = 0) =>
        /\ Relayed(out) = received
        /\ \A i, j \in 1..Len(received) : received[i].pass = received[j].pass

(* C3: the number of tool-seeking upstream calls of one request never       *)
(* exceeds max_retries.                                                     *)
C3_SeekCallsBounded ==
    server = "tools" => CountPhase("seek") <= max_retries

(* C4: when every tool-seeking attempt raises, the handler retries after    *)
(* each of the first max_retries - 1 failures and ends on the last one with *)
(* exactly max_retries upstream calls, one error object, emitted last, and  *)
(* no second-pass call.                                                     *)
C4_AllAttemptsRaise ==
    (ToolPath /\ directs = 0 /\ returned = 0 /\ ~disconnected) =>
        /\ CountPhase("seek") = Len(calls)
        /\ pc = "open" => (retry_count < max_retries /\ Len(calls) = retry_count)
        /\ pc \in {"read", "tool"} =>
              (retry_count < max_retries /\ Len(calls) = retry_count + 1)
        /\ pc = "done" =>
              /\ retry_count = max_retries
              /\ Len(calls) = max_retries
              /\ ErrorCount(out) = 1
              /\ out[Len(out)].err = "exhausted"
        /\ pc \in {"start", "open", "read", "tool", "done"}

C4_Witness ==
    /\ Exhausted /\ directs = 0 /\ returned = 0
    /\ Len(calls) = max_retries
    /\ Len(invocations) > 0

(* C5: when the tool-seeking phase fails max_retries times, the client      *)
(* receives exactly one error object and no bytes from the streams of the   *)
(* failed attempts.                                                         *)
C5_OnlyErrorAfterExhaustion ==
    (Exhausted /\ directs = 0) =>
        /\ ErrorCount(out) = 1
        /\ \A i \in 1..Len(out) : out[i].bytes = << >>

(* C6: every second upstream call carries, as the last message of its       *)
(* conversation, the tool message holding the result of the invocation that *)
(* returned; the second pass is never open without such a call.             *)
C6_ToolMessageBeforeSecondCall ==
    /\ \A k \in 1..Len(calls) :
          calls[k].phase = "final" =>
             LET m == calls[k].messages
             IN  /\ returned > 0
                 /\ Len(m) > 0
                 /\ m[Len(m)] = [role |-> "tool",
                                 content |-> invocations[Len(invocations)]]
    /\ pc = "relay" => CountPhase("final") > 0

C6_Witness ==
    /\ pc = "relay"
    /\ CountPhase("final") = 1
    /\ Len(invocations) = 2

(* C7 as claimed: use_tools is entered at most once per client request.     *)
C7_AtMostOneInvocation ==
    server = "tools" => Len(invocations) <= 1

(* C7 as amended: use_tools is entered at most once per tool-seeking pass   *)
(* and returns at most once per client request; every entry that raised     *)
(* used up one attempt of the budget, so there are at most max_retries      *)
(* entries.                                                                 *)
C7_OneInvocationPerAttempt ==
    /\ returned <= 1
    /\ \A i, j \in 1..Len(invocations) : i < j => invocations[i] < invocations[j]
    /\ Len(invocations) <= retry_count + returned
    /\ Len(invocations) <= max_retries

C7_Witness ==
    /\ Len(invocations) = 2
    /\ returned = 1
    /\ pc = "done"

(* C8: after use_tools has returned exactly one further upstream call is    *)
(* made, with the updated conversation, no tools and the request's stream   *)
(* flag, and what it produces is relayed in order; there is no such call    *)
(* unless use_tools has returned.                                           *)
C8_SecondPass ==
    LET fin == FromPhase(received, "final")
    IN  /\ CountPhase("final") <= 1
        /\ CountPhase("final") = 1 =>
              LET c == calls[Len(calls)]
              IN  /\ returned = 1 /\ tool_call_success
                  /\ c.phase = "final"
                  /\ c.tools = FALSE
                  /\ c.stream = is_streaming
                  /\ c.model = calls[1].model
                  /\ c.messages = Append(calls[1].messages, ToolMsg(result))
        /\ (server = "tools" /\ tool_call_success /\ pc \in {"relay", "done"}) =>
              CountPhase("final") = 1
        /\ CountPhase("final") = 0 => fin = << >>
        /\ (server = "tools" /\ is_streaming) =>
              FromPhase(Relayed(out), "final") = fin
        /\ (server = "tools" /\ ~is_streaming) =>
              IF pc = "done" /\ tool_call_success /\ ErrorCount(out) = 0
              THEN out[Len(out)].bytes = fin
              ELSE FromPhase(Relayed(out), "final") = << >>

C8_Witness ==
    /\ server = "tools" /\ pc = "done" /\ tool_call_success
    /\ ErrorCount(out) = 0
    /\ Len(FromPhase(received, "final")) = 2
    /\ retry_count > 0

NoIncomingSystem ==
    /\ data.has_messages
    /\ \A i \in 1..Len(data.messages) :
          ~(data.messages[i].role = "system" /\ data.messages[i].content = "in")

(* C9: when the incoming messages list has no system message, the           *)
(* conversation of every upstream call has exactly one system message, and  *)
(* it is the first message.                                                 *)
C9_OneSystemMessageFirst ==
    NoIncomingSystem =>
        \A k \in 1..Len(calls) :
            LET m == calls[k].messages
            IN  /\ Len(m) >= 1
                /\ m[1].role = "system"
                /\ \A i \in 2..Len(m) : m[i].role # "system"

C9_Witness ==
    /\ server = "tools" /\ NoIncomingSystem
    /\ Len(data.messages) > 2
    /\ CountPhase("seek") >= 2
    /\ CountPhase("final") = 1

(* C10: a housekeeping task makes exactly one upstream call, without tools  *)
(* and with the fixed model, never enters the retry loop and never invokes  *)
(* a tool; any other request takes the tool-calling path.                   *)
C10_TaskBypass ==
    server = "tools" =>
        IF data.task \in BypassTasks
        THEN /\ CountPhase("seek") = 0 /\ CountPhase("final") = 0
             /\ invocations = << >>
             /\ pc \notin {"open", "read", "tool", "after", "relay"}
             /\ \A k \in 1..Len(calls) :
                   calls[k].tools = FALSE /\ calls[k].model = FixedModel
             /\ pc \in {"bypass_relay", "done"} => Len(calls) = 1
        ELSE /\ CountPhase("bypass") = 0
             /\ pc \notin {"bypass", "bypass_relay"}

\* the two halves of a directive, first chunks of pass p, have both arrived
SplitDirectiveArrived(p) ==
    \E i \in 1..(Len(received) - 1) :
        /\ received[i].phase = "seek" /\ received[i].pass = p
        /\ received[i].idx = 1 /\ received[i].kind = "toolpart"
        /\ received[i + 1].pass = p /\ received[i + 1].kind = "toolpart"

(* C11: a tool-call directive that arrives cut in two chunks is detected    *)
(* when its second half has arrived, and neither half is relayed as it is.  *)
C11_SplitDirectiveDetected ==
    \A p \in 1..LastPass :
        (ToolPath /\ SplitDirectiveArrived(p)) =>
            /\ (pc = "tool" /\ LastPass = p) \/ (\E k \in 1..Len(invocations) : invocations[k] = p)
            /\ LET rel == Relayed(out)
               IN  \A i \in 1..Len(rel) : ~(rel[i].pass = p /\ rel[i].kind = "toolpart")

(* C12: a chunk of a tool-seeking pass that carries a tool-call field is    *)
(* never relayed, and it is the last chunk read from its pass.              *)
C12_ToolCallEndsPass ==
    \A i \in 1..Len(received) :
        (received[i].phase = "seek" /\ received[i].kind \in {"tool", "emptytool"}) =>
            /\ \A j \in 1..Len(received) : j > i => received[j].pass # received[i].pass
            /\ LET rel == Relayed(out)
               IN  \A k \in 1..Len(rel) : rel[k] # received[i]
            /\ \A k \in 1..Len(accumulated_response) : accumulated_response[k] # received[i]

C12_Witness ==
    /\ \E i \in 1..Len(received) :
          /\ received[i].kind = "tool" /\ received[i].idx = 2
          /\ Len(received) > i
    /\ Len(Relayed(out)) >= 2

\* items of the output that put bytes on the wire
Payloads(o) == {i \in 1..Len(o) : o[i].bytes # << >> \/ o[i].err # "none"}

(* C13: with stream=false the client receives at most one payload.          *)
C13_OneBufferedPayload ==
    (ToolPath /\ ~is_streaming /\ directs = 0) => Cardinality(Payloads(out)) <= 1

(* C14: at most one error object is emitted, it is the last thing emitted,  *)
(* and the handler has finished when it is out: nothing follows it.         *)
C14_SingleFinalError ==
    /\ [](/\ ErrorCount(out) <= 1
          /\ ErrorCount(out) = 1 => (out[Len(out)].err # "none" /\ pc = "done"))
    /\ [][pc # "done"]_vars

C14_Witness ==
    /\ ErrorCount(out) = 1
    /\ Len(out) = 3
    /\ server = "tools"

(* C15: the body of a non-2xx response to a tool-seeking call is not        *)
(* relayed, and when that response is closed the attempt has been counted.  *)
C15_ErrorStatusIsFailedAttempt ==
    [][(server = "tools" /\ response = "error_status") =>
          /\ out' = out
          /\ response' = "none" => retry_count' = retry_count + 1]_vars

(* C16: an exception in the post-tool-call pass ends the request: the error *)
(* object is emitted, no call is added, use_tools is not entered again, no  *)
(* attempt is counted, and the conversation still ends with the tool        *)
(* message.                                                                 *)
C16_RelayErrorNotRetried ==
    /\ [][(server = "tools" /\ pc = "relay" /\ ErrorCount(out') > ErrorCount(out)) =>
             /\ pc' = "done"
             /\ out' = Append(out, ErrorItem("outer"))
             /\ calls' = calls
             /\ invocations' = invocations
             /\ retry_count' = retry_count
             /\ messages' = messages
             /\ messages[Len(messages)] = ToolMsg(result)]_vars
    /\ [][pc = "done" => pc' = "done"]_vars

C16_Witness ==
    /\ server = "tools" /\ pc = "done" /\ tool_call_success
    /\ ErrorCount(out) = 1
    /\ out[Len(out)].err = "outer"
    /\ Len(FromPhase(received, "final")) = 1

(* C17: when use_tools raises, retry_count grows by one; below max_retries  *)
(* the handler goes back to issue the tool-seeking call again, at           *)
(* max_retries it emits the error object and ends.                          *)
C17_ToolFailureCounts ==
    [][(pc = "tool" /\ returned' = returned) =>
          /\ retry_count' = retry_count + 1
          /\ IF retry_count' < max_retries
             THEN pc' = "open" /\ out' = out
             ELSE pc' = "done" /\ out' = Append(out, ErrorItem("exhausted"))]_vars

C17_Witness ==
    /\ Exhausted /\ returned = 0
    /\ tool_calls = "calls"
    /\ Len(invocations) = 2

(* C18: at most one upstream response is open at a time; use_tools is       *)
(* entered and the second call issued only when the first pass's response   *)
(* is closed; no second-pass chunk is relayed before a first-pass chunk.    *)
C18_PassesSequential ==
    server = "tools" =>
        /\ open_streams \in {0, 1}
        /\ pc \in {"tool", "after"} => open_streams = 0
        /\ pc = "relay" => open_streams = 1
        /\ LET rel == Relayed(out)
           IN  \A i, j \in 1..Len(rel) :
                  (rel[i].phase = "final" /\ rel[j].phase = "seek") => j < i

C18_Witness ==
    /\ server = "tools" /\ pc = "relay" /\ open_streams = 1
    /\ \E i, j \in 1..Len(Relayed(out)) :
          Relayed(out)[i].phase = "seek" /\ Relayed(out)[j].phase = "final"

(* C20: when the client disconnects while the handler is suspended at the   *)
(* yield of a chunk, the open upstream response is closed and the handler   *)
(* stops: no call, no tool invocation, no counted attempt, no error object, *)
(* and no step afterwards.                                                  *)
C20_DisconnectStops ==
    /\ [][(disconnected' /\ ~disconnected) =>
             /\ open_streams = 1 /\ open_streams' = 0
             /\ calls' = calls
             /\ invocations' = invocations
             /\ retry_count' = retry_count
             /\ out' = out]_vars
    /\ [][~disconnected]_vars

C20_Witness ==
    /\ disconnected
    /\ pc = "cancelled"
    /\ retry_count > 0
    /\ Len(Relayed(out)) = 2

(* C21: GET /api/tags returns the decoded model list of the backend's answer *)
(* when the status is 2xx, an object {error: ...} when the request raises,  *)
(* the status is not 2xx or the body does not decode, and never ends with   *)
(* an exception.                                                            *)
C21_TagsReply ==
    endpoint = "tags" =>
        /\ pc # "raised"
        /\ pc = "done" =>
              IF response = "2xx" /\ received[1].json
              THEN reply = received[1].models
              ELSE reply \in {ErrorReply(e) :
                                e \in TagsErrors \cup {"HTTPStatusError", "JSONDecodeError"}}
        /\ (pc = "done" /\ response \notin {"none", "2xx"}) =>
              reply = ErrorReply("HTTPStatusError")
        /\ Len(calls) <= 1

C21_Witness ==
    /\ endpoint = "tags" /\ pc = "done"
    /\ response = "2xx"
    /\ reply = <<"llama3.2:1b", "llama3.1:latest">>

\* the body the generate endpoint is to send for the request body b
Prefixed(b) ==
    IF b.has_prompt THEN [b EXCEPT !.prompt = <<GeneratePrefix>> \o b.prompt] ELSE b

(* C22: POST /api/generate makes exactly one upstream call, to the generate *)
(* endpoint, with the request body in which the prompt, if any, is prefixed *)
(* once by the instruction and nothing else differs; the chunks are relayed *)
(* in order, each once; an exception adds one error object, which is last.  *)
C22_GenerateForwardsOnce ==
    (endpoint = "generate" /\ pc # "start") =>
        /\ Len(calls) = 1
        /\ calls[1].phase = "generate"
        /\ calls[1].body = Prefixed(body)
        /\ ~body.has_prompt => calls[1].body = body
        /\ body.has_prompt =>
              /\ Head(calls[1].body.prompt) = GeneratePrefix
              /\ Tail(calls[1].body.prompt) = body.prompt
        /\ Relayed(out) = received
        /\ ErrorCount(out) <= 1
        /\ \A i \in 1..Len(out) : out[i].err # "none" => (i = Len(out) /\ pc = "done")
        /\ \A i \in 1..Len(out) : out[i].err = "none" => Len(out[i].bytes) = 1

C22_Witness ==
    /\ endpoint = "generate" /\ pc = "done"
    /\ body.prompt = <<GeneratePrefix, "hi">>
    /\ Len(received) = 2
    /\ ErrorCount(out) = 1

\* a step that is a call of capability f made while the mock flag is set
MockCallOf(f) ==
    /\ tool_pc \in {"idle", "returned"}
    /\ USE_MOCK_DATA /\ USE_MOCK_DATA'
    /\ functions' = functions
    /\ fn' = f

(* C23: a call of get_player_info, get_team_info or get_game_info ends by   *)
(* returning a result or an error indicator, whatever the arguments and     *)
(* whatever the provider does; an exception of the provider comes back as   *)
(* the error indicator of the capability and never leaves the call.         *)
C23_NoExceptionEscapes ==
    /\ [](/\ tool_pc \in {"idle", "api", "returned"}
          /\ tool_pc = "returned" => ret.tag \in {"result", "error"})
    /\ [][tool_pc = "api" =>
             /\ tool_pc' = "returned"
             /\ ret'.exc \in ProviderErrors => ret' = ErrorFrom(FetchError(fn), ret'.exc)]_vars

C23_Witness ==
    /\ tool_pc = "returned"
    /\ fn = "get_game_info"
    /\ ret = ErrorFrom(FetchError("get_game_info"), "ServerError")

\* the mock players with this first name and this last name, letter case aside
NamedPlayers(first, last) ==
    {i \in DOMAIN MOCK_PLAYERS :
        /\ lower(first) = lower(MOCK_PLAYERS[i].first_name)
        /\ lower(last) = lower(MOCK_PLAYERS[i].last_name)}

(* C24: in mock mode get_player_info, given two strings, returns the mock   *)
(* player whose first name is the first and whose last name is the second,  *)
(* letter case aside; the 'No player found' indicator when there is no such *)
(* player; and the 'required' indicator, with no lookup, when either string *)
(* is empty.                                                                *)
C24_MockPlayerLookup ==
    [][(MockCallOf("get_player_info") /\ args'[1].type = "str" /\ args'[2].type = "str") =>
          LET first == args'[1].val
              last  == args'[2].val
          IN  /\ tool_pc' = "returned"
              /\ api_requests' = << >>
              /\ IF first = << >> \/ last = << >>
                 THEN ret' = ErrorIndicator(<<"First name and last name are required">>)
                 ELSE IF NamedPlayers(first, last) # {}
                 THEN \E i \in NamedPlayers(first, last) : ret' = Returns(MOCK_PLAYERS[i])
                 ELSE ret' = ErrorIndicator(<<"No player found with name ">>
                                               \o first \o <<" ">> \o last)]_vars

\* the mock teams whose name or full name contains the string
TeamsContaining(s) ==
    {i \in DOMAIN MOCK_TEAMS :
        \/ In(lower(s), lower(MOCK_TEAMS[i].full_name))
        \/ In(lower(s), lower(MOCK_TEAMS[i].name))}

IsFullTeamName(s) == \E i \in DOMAIN MOCK_TEAMS : s = MOCK_TEAMS[i].full_name

(* C26: in mock mode get_team_info, given a part of a team name that is not *)
(* a full team name (the test gives 'Warriors' and 'War'), returns the      *)
(* 'Multiple teams found' indicator.                                        *)
C26_PartialTeamName ==
    [][(/\ MockCallOf("get_team_info")
        /\ args'[1] \in {Str(Text.Warriors), Str(Text.War)}
        /\ ~IsFullTeamName(args'[1].val)) =>
          ret' = ErrorIndicator(<<"Multiple teams found. Please use full team name.">>)]_vars

(* C27: the handler terminates: every tool-seeking pass that ends either    *)
(* hands a tool call over, ends the request, or uses up one attempt of the  *)
(* retry budget, so that no pass leaves the handler where it was before.    *)
C27_EveryPassMakesProgress ==
    [][(ToolPath /\ pc = "read" /\ pc' # "read") =>
          \/ pc' \in {"tool", "done", "cancelled"}
          \/ retry_count' > retry_count]_vars

\* the step reads a chunk of a tool-seeking pass whose tool-call field is empty
ReadsEmptyToolCalls ==
    /\ ToolPath /\ pc = "read"
    /\ Len(received') = Len(received) + 1
    /\ received'[Len(received')].kind = "emptytool"

(* C28: a chunk of a tool-seeking pass whose tool-call field is present but *)
(* empty does not end the pass: it is relayed (or added to the buffered     *)
(* body) and the handler goes on reading the response.                      *)
C28_EmptyToolCallsRelayed ==
    [][ReadsEmptyToolCalls =>
          /\ pc' = "read"
          /\ response' = response
          /\ IF is_streaming
             THEN out' = Append(out, Item(<<received'[Len(received')]>>))
             ELSE accumulated_response' =
                     Append(accumulated_response, received'[Len(received')])]_vars

(* C29: the chunks of tool-seeking passes that reach the client all come    *)
(* from one attempt.                                                        *)
C29_RelayFromOneAttempt ==
    (ToolPath /\ directs = 0) =>
        LET rel == FromPhase(Relayed(out), "seek")
        IN  \A i, j \in 1..Len(rel) : rel[i].pass = rel[j].pass

(* C30: all tool-seeking calls of a request carry the same payload: the     *)
(* conversation as it was when the loop was entered, the tools, the model   *)
(* and the stream flag of the request; the conversation is not changed      *)
(* while the loop runs.                                                     *)
C30_IdenticalAttempts ==
    ToolPath =>
        /\ \A i, j \in 1..Len(calls) :
              (calls[i].phase = "seek" /\ calls[j].phase = "seek") => calls[i] = calls[j]
        /\ \A i \in 1..Len(calls) :
              calls[i].phase = "seek" =>
                 /\ calls[i].tools = TRUE
                 /\ calls[i].stream = is_streaming
                 /\ calls[i].model = DataGetModel(body)
        /\ (pc \in {"open", "read", "tool"} /\ calls # << >>) => messages = calls[1].messages

C30_Witness ==
    /\ ToolPath /\ pc = "read"
    /\ CountPhase("seek") = 3
    /\ Len(invocations) = 1
    /\ data.has_messages /\ Len(messages) = 2

\* the conversation of the request: the list under data['messages'], which the
\* local name `messages` is bound to as well, or the local list when the body
\* has no such key
Conversation == IF data.has_messages THEN data.messages ELSE messages

\* the incoming messages stand in msgs next to each other, in their order,
\* behind at most one message put in front of them
KeepsIncoming(msgs) ==
    \E k \in 0..1 :
       /\ Len(msgs) >= k + Len(body.messages)
       /\ SubSeq(msgs, k + 1, k + Len(body.messages)) = body.messages

C32_DefaultConversation ==
    (server = "tools" /\ ~body.has_messages) =>
       /\ calls # << >> => calls[1].messages = <<SysMsg>>
       /\ pc = "done" => calls # << >>

(* C33: every capability name the tool server advertises to the model and   *)
(* registers as a handler is defined by nba_tools, so that each advertised  *)
(* name resolves to a callable handler.                                     *)
C33_AdvertisedNamesResolve ==
    functions.status # "unloaded" =>
       /\ functions.status = "loaded"
       /\ \A name \in Advertised : name \in functions.names /\ Resolve(name) = "callable"

(* C34: while the mock flag is set, from set_use_mock_data(True) to         *)
(* set_use_mock_data(False), no call of get_player_info, get_team_info or   *)
(* get_game_info makes a request to the data provider, whatever its         *)
(* arguments; and the setter changes the flag and nothing else.             *)
C34_MockFlagKeepsCallsLocal ==
    /\ [](USE_MOCK_DATA => tool_pc # "api")
    /\ [][/\ \A f \in Capabilities :
               MockCallOf(f) => tool_pc' # "api" /\ api_requests' = << >>
          /\ USE_MOCK_DATA' # USE_MOCK_DATA =>
               UNCHANGED << tool_pc, fn, args, ret, api_requests, functions,
                            chat_vars, endpoint, body, reply >>]_vars

C34_Witness ==
    /\ USE_MOCK_DATA
    /\ tool_pc = "returned"
    /\ fn = "get_game_info"
    /\ ret.tag = "result"
    /\ api_requests = << >>

(* C35: with mock mode off get_player_info returns an error indicator or a  *)
(* player whose first and last name match the two names supplied; in        *)
(* particular, when the provider answers the search with players of the     *)
(* requested first name, the player returned has the requested last name.   *)
C35_RealPlayerHasRequestedLastName ==
    [][(/\ tool_pc = "api"
        /\ fn = "get_player_info"
        /\ ~USE_MOCK_DATA
        /\ ret'.tag = "result"
        /\ In(lower(args[1].val), lower(ret'.value.first_name))) =>
          In(lower(args[2].val), lower(ret'.value.last_name))]_vars

(* C36: in the plain proxy chat endpoint (the copy under open_webui) one    *)
(* upstream call is made per request; with stream=true every upstream chunk *)
(* is relayed once, in arrival order; with stream=false nothing is emitted  *)
(* while the upstream response is read and one payload, the chunks of the   *)
(* response joined in order, is emitted when it ends; an exception yields   *)
(* one error object, which is the last output.                              *)
C36_BufferedProxyChat ==
    server = "proxy_buffered" =>
       /\ Len(calls) <= 1
       /\ pc # "start" => Len(calls) = 1 /\ calls[1] = ProxyPayload(data)
       /\ ErrorCount(out) <= 1
       /\ ErrorCount(out) = 1 => pc = "done" /\ out[Len(out)] = ErrorItem("outer")
       /\ is_streaming =>
            /\ Len(out) = Len(received) + ErrorCount(out)
            /\ \A i \in 1..Len(received) : out[i] = Item(<<received[i]>>)
       /\ ~is_streaming =>
            /\ pc = "proxy_relay" => out = << >>
            /\ pc = "done" => out = <<Item(received)>> \/ out = <<ErrorItem("outer")>>

C36_Witness ==
    /\ server = "proxy_buffered"
    /\ ~is_streaming
    /\ pc = "done"
    /\ Len(received) = 2
    /\ out = <<Item(received)>>

====
